---- MODULE Spec2Model ----
(***************************************************************************)
(* State machine of LTAR_Display.ino: the two digit health / shield        *)
(* display for the LTAR tagger (setup(), loop() and their subroutines).    *)
(*                                                                         *)
(* The sketch is one sequential program made of blocking polling loops.    *)
(* pc names the statement the program is at; one action is one iteration   *)
(* of the loop at pc, or the straight-line code up to the next loop.       *)
(*                                                                         *)
(* Time.  Every comparison the sketch makes has the form                   *)
(*   stamp + k <= millis()   or   (millis() - stamp) / k,                  *)
(* with stamp one of startup_timeout, button_down_time, shield_timing.     *)
(* The model keeps the difference millis() - stamp in the variable         *)
(* elapsed (milliseconds), for the stamp the current loop reads; an        *)
(* assignment stamp = millis() is elapsed' = 0.  In the loops that read no *)
(* stamp, elapsed counts from the start of the loop's phase (see each      *)
(* action) or is 0.                                                        *)
(* The stamps are 32 bit longs: the runs considered stay below the 2^31 ms  *)
(* (24 days) at which they would wrap.                                     *)
(***************************************************************************)
EXTENDS Integers, Sequences, FiniteSets, TLC

(***************************************************************************)
(* Program constants                                                       *)
(***************************************************************************)
ADVANCED_HEALTH_ADDRESS == 46
ADVANCED_SHIELD_ADDRESS == 47

Hit_Beacon_Pin == 12
Shield_Pin == 13
Fire_Pin == 7

pinMap_digit1 == <<10, 11, 4, 5, 6, 8, 9>>
pinMap_digit2 == <<15, 16, 0, 2, 3, 14, 1>>

\* seg_array[d + 1] is the pattern of hex digit d, bit i = segment A + i
seg_array ==
  <<63, 6, 91, 79, 102, 109, 125, 7, 127, 103, 119, 124, 57, 94, 121, 113>>

DashPattern == 64          \* 0b01000000, segment G only
DebounceMs == 55           \* delay(55) in button_is_pressed
StartupTimeoutMs == 61000  \* long timeout_max = 61000
ExtendedTimeoutMs == 110000 \* timeout_max = 110000
HoldThresholdMs == 1000    \* button_down_time + 1000
RepeatDelayMs == 100       \* delay(100)
ShieldTickMs == 999        \* shield_timing + 999, ... / 999
CountdownFrom == 10        \* for (int i = 10; ...)
CountdownDelayMs == 1000   \* delay(1000)
DepletedDelayMs == 60000   \* delay(60000)
ShieldSpan == 10           \* shields_remaining - 10
DefaultHealth == 10
DefaultShields == 15
AltHealth == 25
AltShields == 30
ResetHealth == 30
ResetShields == 10
MaxNumber == 99
ByteMax == 255             \* EEPROM cells are bytes

(***************************************************************************)
(* Bounds of the exploration (not program constants)                       *)
(***************************************************************************)
MaxBoots == 2      \* power-ons explored
MaxInc == 1        \* inc_health / inc_shield calls per power-on
MaxHits == 2       \* health decrements per power-on
MaxAct == 1        \* shield activations per power-on
MaxHold == 1       \* short runs of debounce delays explored after a stamp or deadline
LongHold == 2000   \* iterations of a long hold after a game type toggle
SpinStep == 61000  \* ms a polling loop may spin with nothing happening
MaxQuiet == 61000  \* ms of quiet main-loop polling that is tracked

\* bytes the two EEPROM cells may hold at the first power-on
EESeed == {99, 255}

MaxWave == 120     \* ms of the line's waveform that are described
CallAt == 60       \* ms at which button_is_pressed takes its first read
MaxStart == 30     \* largest shields_remaining a game of GameSpec starts with

(***************************************************************************)
(* Arithmetic helpers                                                      *)
(***************************************************************************)
Min(a, b) == IF a <= b THEN a ELSE b

\* C division and remainder truncate toward zero
CDiv(a, b) == IF a >= 0 THEN a \div b ELSE -((-a) \div b)
CMod(a, b) == a - b * CDiv(a, b)

\* conversion to the 16 bit int of the ATtiny4313
ToInt16(x) == ((x + 32768) % 65536) - 32768

Bit(x, k) == (x \div (2 ^ k)) % 2

SegPins == {pinMap_digit1[k] : k \in 1..7} \cup {pinMap_digit2[k] : k \in 1..7}

\* digitalWrite of one 7 bit pattern per digit, as in the for loops
WritePatterns(p1, p2) ==
  [p \in SegPins |->
     IF \E k \in 1..7 : pinMap_digit1[k] = p
     THEN Bit(p1, (CHOOSE k \in 1..7 : pinMap_digit1[k] = p) - 1)
     ELSE Bit(p2, (CHOOSE k \in 1..7 : pinMap_digit2[k] = p) - 1)]

\* disp_output = (disp_output / 10) * 16 + (disp_output % 10)
BCD(n) == ToInt16(CDiv(n, 10) * 16 + CMod(n, 10))

\* the high nibble of the number itself, without the BCD conversion
Digit1WithoutBCD(n) == ((n % 65536) \div 16) % 16

\* (disp_output >> 4) & 0x0F and disp_output & 0x0F on the 16 bit pattern
Digit1(n) == ((BCD(n) % 65536) \div 16) % 16

Digit2(n) == (BCD(n) % 65536) % 16

\* the 14 line levels display_num(n) leaves
display_num(n) == WritePatterns(seg_array[Digit1(n) + 1], seg_array[Digit2(n) + 1])

\* the dashes shown when advanced mode is selected
DisplayDashes == WritePatterns(DashPattern, DashPattern)

\* the for loop of shutdown_now
DisplayOff == [p \in SegPins |-> 0]

(***************************************************************************)
(* button_is_pressed: s = <<first digitalRead, digitalRead after the       *)
(* delay>>.  The second read happens only when the first is high.          *)
(***************************************************************************)
Samples == BOOLEAN \X BOOLEAN

\* a read without the settle delay and the second read
button_is_pressed_undebounced(s) == s[1]

button_is_pressed(s) == s[1] /\ s[2]

\* waveforms with at most one pulse: high from a ms to b ms, b excluded
Waves == {w \in (0..MaxWave) \X (0..MaxWave) : w[1] <= w[2]}

\* digitalRead at time t of a line with waveform w
Level(w, t) == w[1] <= t /\ t < w[2]

\* the two reads of a call at time t: digitalRead, delay(55), digitalRead
ReadsOf(w, t) == <<Level(w, t), Level(w, t + DebounceMs)>>

\* a call that reads a pulse (high, then low after the delay) costs the delay
\* and reports nothing; such calls are explored for MaxHold delays after the
\* stamp was taken and after the deadline d has passed
GlitchExplored(e, d) ==
  \/ e < MaxHold * DebounceMs
  \/ d <= e /\ e < d + MaxHold * DebounceMs

\* time the call takes
ButtonCost(s) == IF s[1] THEN DebounceMs ELSE 0

\* level of the line at the last read of the call
LastLevel(s) == IF s[1] THEN s[2] ELSE FALSE

(***************************************************************************)
(* State                                                                   *)
(***************************************************************************)
VARIABLES
  pc,                \* statement the program is at
  health,            \* int health
  shields_remaining, \* int shields_remaining
  shield_min,        \* int shield_min of shield_handler (0 outside it)
  timeout_max,       \* long timeout_max of setup
  count,             \* int i of the pre-game count down
  elapsed,           \* millis() - stamp, see the head of the module
  eeprom,            \* the two EEPROM cells
  pins,              \* level of the 14 segment lines
  line,              \* level each input line had when it was last read
  disp_arg,          \* << argument of the last display_num call >>, << >> if none
  saved,             \* << health, shields >> confirmed by the last completed number
                     \* entry, << >> if none or once a later entry stored another value
  wave,              \* << a, b >>: the line read by the next button_is_pressed
                     \* call is high from a ms to b ms (b excluded) and low
                     \* otherwise; << >> where the reads are left open
  shield_start,      \* shields_remaining when the running activation began,
                     \* -1 outside shield_handler
  ended_by,          \* how the second loop of the running shield_handler ended:
                     \* "press" (Shield read pressed with shields above
                     \* shield_min), "floor", or "none" before that and outside
  boots, incs, hits, acts  \* counters the bounds are stated on

vars == <<pc, health, shields_remaining, shield_min, timeout_max, count,
          elapsed, eeprom, pins, line, disp_arg, saved, ended_by, wave, shield_start,
          boots, incs, hits, acts>>

InputPins == {Fire_Pin, Hit_Beacon_Pin, Shield_Pin}
EepromCells == {ADVANCED_HEALTH_ADDRESS, ADVANCED_SHIELD_ADDRESS}

\* the line levels after a button_is_pressed(pin) call that read s
Sampled(l, pin, s) == [l EXCEPT ![pin] = LastLevel(s)]

\* display_num(n) as a step
Show(n) == pins' = display_num(n) /\ disp_arg' = <<n>>

\* variant: the call returns to the loop at from once the display is off
shutdown_now_returns(from) == pins' = DisplayOff /\ pc' = from

\* shutdown_now(), called from the loop at from: the display is turned off
\* and the processor sleeps and holds in while(1)
shutdown_now(from) == pins' = DisplayOff /\ pc' = "off"

\* memory and lines right after reset: globals are zero, setup's locals set
Reset ==
  /\ pc' = "boot"
  /\ health' = 0
  /\ shields_remaining' = 0
  /\ shield_min' = 0
  /\ timeout_max' = StartupTimeoutMs
  /\ count' = 0
  /\ elapsed' = 0
  /\ pins' = DisplayOff
  /\ line' = [p \in InputPins |-> FALSE]
  /\ disp_arg' = << >>
  /\ ended_by' = "none"
  /\ shield_start' = -1
  /\ incs' = 0 /\ hits' = 0 /\ acts' = 0

\* the first power-on, with the EEPROM cells holding bytes of the set seed
InitWith(seed) ==
  /\ pc = "boot"
  /\ health = 0
  /\ shields_remaining = 0
  /\ shield_min = 0
  /\ timeout_max = StartupTimeoutMs
  /\ count = 0
  /\ elapsed = 0
  /\ eeprom \in [EepromCells -> seed]
  /\ pins = DisplayOff
  /\ line = [p \in InputPins |-> FALSE]
  /\ disp_arg = << >>
  /\ saved = << >>
  /\ ended_by = "none"
  /\ shield_start = -1
  /\ boots = 1
  /\ incs = 0 /\ hits = 0 /\ acts = 0

Init == InitWith(EESeed) /\ wave = << >>

\* the tagger is switched off and on: setup() runs again, the EEPROM stays
PowerCycle ==
  /\ pc # "boot"
  /\ boots < MaxBoots
  /\ boots' = boots + 1
  /\ Reset
  /\ UNCHANGED <<eeprom, saved, wave>>

(***************************************************************************)
(* setup(): game type collection                                           *)
(***************************************************************************)
\* if (button_is_pressed(Shield_Pin)) ... else { default game info }
Boot(s) ==
  /\ pc = "boot"
  /\ line' = Sampled(line, Shield_Pin, s)
  /\ IF button_is_pressed(s)
     THEN /\ pins' = DisplayDashes
          /\ pc' = "adv_release"
          /\ UNCHANGED <<health, shields_remaining, elapsed, disp_arg>>
     ELSE /\ health' = DefaultHealth
          /\ shields_remaining' = DefaultShields
          /\ Show(DefaultHealth)
          /\ elapsed' = elapsed + ButtonCost(s)   \* startup_timeout = 0
          /\ pc' = "normal"
  /\ UNCHANGED <<shield_min, timeout_max, count, eeprom, saved,
                 boots, incs, hits, acts>>
  /\ UNCHANGED <<ended_by, wave, shield_start>>

\* variant: only the health byte is range checked
EepromUnknownHealthOnly(h, s) == h > MaxNumber

\* if ( ( health > 99 ) || ( shields_remaining > 99 ) )
EepromUnknown(h, s) == (h > MaxNumber) \/ (s > MaxNumber)

\* variant: the cells are reset at every load, known or not
EepromAlwaysReset(e) ==
  [e EXCEPT ![ADVANCED_HEALTH_ADDRESS] = ResetHealth,
            ![ADVANCED_SHIELD_ADDRESS] = ResetShields]

\* variant: only the cell that is out of range is reset
EepromResetOneCell(e) ==
  [a \in EepromCells |->
     IF e[a] > MaxNumber
     THEN (IF a = ADVANCED_HEALTH_ADDRESS THEN ResetHealth ELSE ResetShields)
     ELSE e[a]]

\* the cells after the load: reset to 30 / 10 if unknown
EepromAfterLoad(e) ==
  IF EepromUnknown(e[ADVANCED_HEALTH_ADDRESS], e[ADVANCED_SHIELD_ADDRESS])
  THEN [e EXCEPT ![ADVANCED_HEALTH_ADDRESS] = ResetHealth,
                 ![ADVANCED_SHIELD_ADDRESS] = ResetShields]
  ELSE e

\* while (button_is_pressed(Shield_Pin)); then the EEPROM load and display
AdvancedLoad(s) ==
  /\ pc = "adv_release"
  /\ line' = Sampled(line, Shield_Pin, s)
  /\ IF button_is_pressed(s)
     THEN UNCHANGED <<pc, health, shields_remaining, timeout_max, eeprom,
                      pins, disp_arg>>
     ELSE /\ timeout_max' = ExtendedTimeoutMs
          /\ eeprom' = EepromAfterLoad(eeprom)
          /\ health' = eeprom'[ADVANCED_HEALTH_ADDRESS]
          /\ shields_remaining' = eeprom'[ADVANCED_SHIELD_ADDRESS]
          /\ Show(health')
          /\ pc' = "entry_health"
  /\ UNCHANGED <<shield_min, count, elapsed, saved,
                 boots, incs, hits, acts>>
  /\ UNCHANGED <<ended_by, wave, shield_start>>

\* variant: the else branch leaves shields_remaining at 30
ToggleGameTypeKeepsShields(h) ==
  IF h = DefaultHealth THEN <<AltHealth, AltShields>>
                       ELSE <<DefaultHealth, AltShields>>

\* if (health == 10) {25, 30} else {10, 15}
ToggleGameType(h) ==
  IF h = DefaultHealth THEN <<AltHealth, AltShields>>
                       ELSE <<DefaultHealth, DefaultShields>>

\* else if ( startup_timeout + timeout_max <= millis())
TimeoutReached(e, tmax) == tmax <= e

\* timeout_max = 110000 after a toggle
TimeoutAfterToggle == ExtendedTimeoutMs

\* one iteration of while (!button_is_pressed(Fire_Pin)) { ... }
NormalPoll(f, s) ==
  /\ pc = "normal"
  /\ LET tf == elapsed + ButtonCost(f)
         ts == tf + ButtonCost(s)
     IN IF button_is_pressed(f)
        THEN /\ pc' = "wait_dark"
             /\ elapsed' = 0
             /\ line' = Sampled(line, Fire_Pin, f)
             /\ UNCHANGED <<health, shields_remaining, timeout_max, pins,
                            disp_arg>>
        ELSE /\ line' = Sampled(Sampled(line, Fire_Pin, f), Shield_Pin, s)
             /\ IF button_is_pressed(s)
                THEN /\ health' = ToggleGameType(health)[1]
                     /\ shields_remaining' = ToggleGameType(health)[2]
                     /\ Show(health')
                     /\ elapsed' = 0                \* startup_timeout = millis()
                     /\ timeout_max' = TimeoutAfterToggle
                     /\ pc' = "normal_release"
                ELSE /\ ts > elapsed => GlitchExplored(elapsed, timeout_max)
                     /\ elapsed' = ts
                     /\ UNCHANGED <<health, shields_remaining, timeout_max, disp_arg>>
                     /\ IF TimeoutReached(ts, timeout_max)
                        THEN shutdown_now("normal")
                        ELSE UNCHANGED <<pins, pc>>
  /\ UNCHANGED <<shield_min, count, eeprom, saved, boots, incs, hits, acts>>
  /\ UNCHANGED <<ended_by, wave, shield_start>>

\* time passes while the loop above polls and no line is high
NormalSpin ==
  /\ pc = "normal"
  /\ elapsed < timeout_max
  /\ elapsed' = Min(elapsed + SpinStep, timeout_max)
  /\ UNCHANGED <<pc, health, shields_remaining, shield_min, timeout_max, count,
                 eeprom, pins, line, disp_arg, saved,
                 boots, incs, hits, acts>>
  /\ UNCHANGED <<ended_by, wave, shield_start>>

HoldRuns == (0..MaxHold) \cup {LongHold}

\* while (button_is_pressed(Shield_Pin)); after a toggle: n iterations read
\* the button pressed, then the call that reads s returns false
NormalRelease(n, s) ==
  /\ pc = "normal_release"
  /\ ~button_is_pressed(s)
  /\ elapsed' = elapsed + n * DebounceMs + ButtonCost(s)
  /\ line' = Sampled(line, Shield_Pin, s)
  /\ pc' = "normal"
  /\ UNCHANGED <<health, shields_remaining, shield_min, timeout_max, count,
                 eeprom, pins, disp_arg, saved,
                 boots, incs, hits, acts>>
  /\ UNCHANGED <<ended_by, wave, shield_start>>

(***************************************************************************)
(* advanced_mode(): number entry                                           *)
(***************************************************************************)
\* variant: the wrap goes to 0
inc_value_wraps_to_zero(v) == IF v < MaxNumber THEN v + 1 ELSE 0

\* the body of inc_health and of inc_shield
inc_value(v) == IF v < MaxNumber THEN v + 1 ELSE 1

\* if ((button_down_time + 1000) < millis())
LongPress(e) == HoldThresholdMs < e

\* variant: every write goes to the health cell
EepromWriteHealthCell(e, addr, v) ==
  [e EXCEPT ![ADVANCED_HEALTH_ADDRESS] = v % (ByteMax + 1)]

\* EEPROM.write stores one byte
EepromWrite(e, addr, v) == [e EXCEPT ![addr] = v % (ByteMax + 1)]

\* variant: the entry loop gives up and shuts down when no button is pressed
EntryHealthTimesOut(s, f) ==
  /\ pc = "entry_health"
  /\ ~button_is_pressed(s) /\ ~button_is_pressed(f)
  /\ shutdown_now("entry_health")
  /\ UNCHANGED <<health, shields_remaining, shield_min, timeout_max, count,
                 elapsed, eeprom, line, disp_arg, saved, ended_by, wave,
                 shield_start, boots, incs, hits, acts>>

\* one iteration of the first while (!button_is_pressed(Shield_Pin)) { ... }
EntryHealth(s, f) ==
  /\ pc = "entry_health"
  /\ IF button_is_pressed(s)
     THEN /\ pc' = "health_commit"
          /\ line' = Sampled(line, Shield_Pin, s)
          /\ UNCHANGED <<health, pins, disp_arg, incs>>
     ELSE /\ line' = Sampled(Sampled(line, Shield_Pin, s), Fire_Pin, f)
          /\ IF button_is_pressed(f)
             THEN /\ incs < MaxInc
                  /\ incs' = incs + 1
                  /\ health' = inc_value(health)          \* inc_health()
                  /\ Show(health')
                  /\ pc' = "health_hold"
             ELSE UNCHANGED <<pc, health, pins, disp_arg, incs>>
  /\ elapsed' = 0                                         \* button_down_time = millis()
  /\ UNCHANGED <<shields_remaining, shield_min, timeout_max, count, eeprom,
                 saved, boots, hits, acts>>
  /\ UNCHANGED <<ended_by, wave, shield_start>>

\* one iteration of the inner while (button_is_pressed(Fire_Pin)) { ... }
HealthHold(f) ==
  /\ pc = "health_hold"
  /\ line' = Sampled(line, Fire_Pin, f)
  /\ LET t == elapsed + ButtonCost(f)
     IN IF button_is_pressed(f)
        THEN /\ UNCHANGED pc
             /\ IF LongPress(t)
                THEN /\ incs < MaxInc
                     /\ incs' = incs + 1
                     /\ health' = inc_value(health)       \* inc_health()
                     /\ Show(health')
                     /\ elapsed' = t + RepeatDelayMs      \* delay(100)
                ELSE /\ elapsed' = t
                     /\ UNCHANGED <<health, pins, disp_arg, incs>>
        ELSE /\ pc' = "entry_health"
             /\ elapsed' = 0
             /\ UNCHANGED <<health, pins, disp_arg, incs>>
  /\ UNCHANGED <<shields_remaining, shield_min, timeout_max, count, eeprom,
                 saved, boots, hits, acts>>
  /\ UNCHANGED <<ended_by, wave, shield_start>>

\* while (button_is_pressed(Shield_Pin)); EEPROM.write(health); display shields
HealthCommit(s) ==
  /\ pc = "health_commit"
  /\ line' = Sampled(line, Shield_Pin, s)
  /\ IF button_is_pressed(s)
     THEN UNCHANGED <<pc, eeprom, pins, disp_arg, saved>>
     ELSE /\ eeprom' = EepromWrite(eeprom, ADVANCED_HEALTH_ADDRESS, health)
          /\ Show(shields_remaining)
          /\ saved' = IF eeprom' = eeprom THEN saved ELSE << >>
          /\ pc' = "entry_shield"
  /\ UNCHANGED <<health, shields_remaining, shield_min, timeout_max, count,
                 elapsed, boots, incs, hits, acts>>
  /\ UNCHANGED <<ended_by, wave, shield_start>>

\* one iteration of the second while (!button_is_pressed(Shield_Pin)) { ... }
EntryShield(s, f) ==
  /\ pc = "entry_shield"
  /\ IF button_is_pressed(s)
     THEN /\ pc' = "shield_commit"
          /\ line' = Sampled(line, Shield_Pin, s)
          /\ UNCHANGED <<shields_remaining, pins, disp_arg, incs>>
     ELSE /\ line' = Sampled(Sampled(line, Shield_Pin, s), Fire_Pin, f)
          /\ IF button_is_pressed(f)
             THEN /\ incs < MaxInc
                  /\ incs' = incs + 1
                  /\ shields_remaining' = inc_value(shields_remaining)  \* inc_shield()
                  /\ Show(shields_remaining')
                  /\ pc' = "shield_hold"
             ELSE UNCHANGED <<pc, shields_remaining, pins, disp_arg, incs>>
  /\ elapsed' = 0                                         \* button_down_time = millis()
  /\ UNCHANGED <<health, shield_min, timeout_max, count, eeprom,
                 saved, boots, hits, acts>>
  /\ UNCHANGED <<ended_by, wave, shield_start>>

\* one iteration of the inner while (button_is_pressed(Fire_Pin)) { ... }
ShieldHold(f) ==
  /\ pc = "shield_hold"
  /\ line' = Sampled(line, Fire_Pin, f)
  /\ LET t == elapsed + ButtonCost(f)
     IN IF button_is_pressed(f)
        THEN /\ UNCHANGED pc
             /\ IF LongPress(t)
                THEN /\ incs < MaxInc
                     /\ incs' = incs + 1
                     /\ shields_remaining' = inc_value(shields_remaining)
                     /\ Show(shields_remaining')
                     /\ elapsed' = t + RepeatDelayMs      \* delay(100)
                ELSE /\ elapsed' = t
                     /\ UNCHANGED <<shields_remaining, pins, disp_arg, incs>>
        ELSE /\ pc' = "entry_shield"
             /\ elapsed' = 0
             /\ UNCHANGED <<shields_remaining, pins, disp_arg, incs>>
  /\ UNCHANGED <<health, shield_min, timeout_max, count, eeprom,
                 saved, boots, hits, acts>>
  /\ UNCHANGED <<ended_by, wave, shield_start>>

\* while (button_is_pressed(Shield_Pin)); EEPROM.write(shields); and, back in
\* setup, display_num(health)
ShieldCommit(s) ==
  /\ pc = "shield_commit"
  /\ line' = Sampled(line, Shield_Pin, s)
  /\ IF button_is_pressed(s)
     THEN UNCHANGED <<pc, eeprom, pins, disp_arg, saved>>
     ELSE /\ eeprom' = EepromWrite(eeprom, ADVANCED_SHIELD_ADDRESS, shields_remaining)
          /\ Show(health)
          /\ saved' = <<health, shields_remaining>>
          /\ pc' = "wait_dark"
  /\ UNCHANGED <<health, shields_remaining, shield_min, timeout_max, count,
                 elapsed, boots, incs, hits, acts>>
  /\ UNCHANGED <<ended_by, wave, shield_start>>

(***************************************************************************)
(* setup(): startup animation                                              *)
(***************************************************************************)
\* one iteration of while ( button_is_pressed(Hit_Beacon_Pin) );
WaitDark(b) ==
  /\ pc = "wait_dark"
  /\ line' = Sampled(line, Hit_Beacon_Pin, b)
  /\ IF button_is_pressed(b)
     THEN UNCHANGED <<pc, count>>
     ELSE pc' = "countdown" /\ count' = CountdownFrom
  /\ UNCHANGED <<health, shields_remaining, shield_min, timeout_max, elapsed,
                 eeprom, pins, disp_arg, saved, boots, incs, hits, acts>>
  /\ UNCHANGED <<ended_by, wave, shield_start>>

\* one iteration of for( int i = 10; i > 0 ; i--); elapsed counts the delays
CountdownStep ==
  /\ pc = "countdown"
  /\ count > 0
  /\ Show(count)
  /\ elapsed' = elapsed + CountdownDelayMs
  /\ count' = count - 1
  /\ UNCHANGED <<pc, health, shields_remaining, shield_min, timeout_max,
                 eeprom, line, saved, boots, incs, hits, acts>>
  /\ UNCHANGED <<ended_by, wave, shield_start>>

\* variant: the 0 and its second are left out
CountdownZeroSkipped ==
  /\ pc = "countdown"
  /\ count = 0
  /\ pc' = "countdown_end"
  /\ UNCHANGED <<health, shields_remaining, shield_min, timeout_max, count,
                 elapsed, eeprom, pins, line, disp_arg, saved,
                 boots, incs, hits, acts>>
  /\ UNCHANGED <<ended_by, wave, shield_start>>

\* display_num( 0x00 ); delay(1000);
CountdownZero ==
  /\ pc = "countdown"
  /\ count = 0
  /\ Show(0)
  /\ elapsed' = elapsed + CountdownDelayMs
  /\ pc' = "countdown_end"
  /\ UNCHANGED <<health, shields_remaining, shield_min, timeout_max, count,
                 eeprom, line, saved, boots, incs, hits, acts>>
  /\ UNCHANGED <<ended_by, wave, shield_start>>

\* display_num( health ); setup returns and its locals (timeout_max) with it
CountdownEnd ==
  /\ pc = "countdown_end"
  /\ Show(health)
  /\ elapsed' = 0
  /\ timeout_max' = StartupTimeoutMs
  /\ pc' = "main"
  /\ UNCHANGED <<health, shields_remaining, shield_min, count,
                 eeprom, line, saved, boots, incs, hits, acts>>
  /\ UNCHANGED <<ended_by, wave, shield_start>>

(***************************************************************************)
(* loop() and shield_handler()                                             *)
(***************************************************************************)
\* if (shields_remaining - 10 > 0) shield_min = shields_remaining - 10; else 0
ShieldFloor(sh) == IF sh - ShieldSpan > 0 THEN sh - ShieldSpan ELSE 0

\* if(shield_timing + 999 <= millis())
UpdateDue(e) == ShieldTickMs <= e

\* variant: two points per 999 ms
ShieldsAfterDoubled(sh, e) == ToInt16(sh - 2 * (e \div ShieldTickMs))

\* shields_remaining - (( millis() - shield_timing ) / 999 )
ShieldsAfter(sh, e) == ToInt16(sh - (e \div ShieldTickMs))

\* variant: the test admits health 0
AliveAtZero(h) == h >= 0

\* if (health > 0)
Alive(h) == h > 0

\* variant: a hit adds a point
HealthAfterHitRaised(h) == h + 1

\* display_num( --health )
HealthAfterHit(h) == h - 1

\* variant: the penalty is taken without looking at shield_min
ShieldsAfterPenaltyUnguarded(sh, floor) == sh - 1

\* variant: no penalty is taken
ShieldsAfterPenaltyOmitted(sh, floor) == sh

\* if (shields_remaining > shield_min) shields_remaining -= 1
ShieldsAfterPenalty(sh, floor) == IF sh > floor THEN sh - 1 ELSE sh

\* one iteration of while (!button_is_pressed(Hit_Beacon_Pin)) shield_handler();
\* up to the handler's first loop, or the code after the while when the
\* beacon is lit.  In this loop elapsed is the time polled since a line last
\* read high.
MainPoll(b, s) ==
  /\ pc = "main"
  /\ IF button_is_pressed(b)
     THEN /\ line' = Sampled(line, Hit_Beacon_Pin, b)
          /\ elapsed' = 0
          /\ UNCHANGED <<shield_min, acts, shield_start>>
          /\ IF Alive(health)
             THEN /\ hits < MaxHits
                  /\ hits' = hits + 1
                  /\ health' = HealthAfterHit(health)
                  /\ Show(health')
                  /\ pc' = "hit_release"
             ELSE /\ Show(0)
                  /\ pc' = "depleted"
                  /\ UNCHANGED <<health, hits>>
     ELSE /\ line' = Sampled(Sampled(line, Hit_Beacon_Pin, b), Shield_Pin, s)
          /\ UNCHANGED <<health, hits>>
          /\ IF button_is_pressed(s)
             THEN /\ acts < MaxAct
                  /\ acts' = acts + 1
                  /\ elapsed' = 0                        \* shield_timing = millis()
                  /\ Show(shields_remaining)
                  /\ shield_min' = ShieldFloor(shields_remaining)
                  /\ shield_start' = shields_remaining
                  /\ pc' = "sh_hold"
             ELSE /\ elapsed' = IF b[1] \/ s[1] THEN 0 ELSE elapsed
                  /\ UNCHANGED <<pc, shield_min, pins, disp_arg, acts,
                               shield_start>>
  /\ UNCHANGED <<shields_remaining, timeout_max, count, eeprom, saved,
                 boots, incs>>
  /\ UNCHANGED <<ended_by, wave>>

\* time passes while the main loop polls and no line is high
MainSpin ==
  /\ pc = "main"
  /\ elapsed < MaxQuiet
  /\ elapsed' = Min(elapsed + SpinStep, MaxQuiet)
  /\ UNCHANGED <<pc, health, shields_remaining, shield_min, timeout_max, count,
                 eeprom, pins, line, disp_arg, saved,
                 boots, incs, hits, acts>>
  /\ UNCHANGED <<ended_by, wave, shield_start>>

\* variant: the wait for a dark beacon is left at once
BeaconNotAwaited(b) == FALSE

\* while ( button_is_pressed(Hit_Beacon_Pin) ); keeps waiting on a lit beacon
BeaconLit(b) == button_is_pressed(b)

\* one iteration of while ( button_is_pressed(Hit_Beacon_Pin) ); after a hit
HitRelease(b) ==
  /\ pc = "hit_release"
  /\ line' = Sampled(line, Hit_Beacon_Pin, b)
  /\ pc' = IF BeaconLit(b) THEN pc ELSE "main"
  /\ UNCHANGED <<health, shields_remaining, shield_min, timeout_max, count,
                 elapsed, eeprom, pins, disp_arg, saved,
                 boots, incs, hits, acts>>
  /\ UNCHANGED <<ended_by, wave, shield_start>>

\* delay(60000); shutdown_now();  elapsed counts the delay
Depleted ==
  /\ pc = "depleted"
  /\ elapsed' = elapsed + DepletedDelayMs
  /\ shutdown_now("main")
  /\ UNCHANGED <<health, shields_remaining, shield_min, timeout_max, count,
                 eeprom, line, disp_arg, saved, boots, incs, hits, acts>>
  /\ UNCHANGED <<ended_by, wave, shield_start>>

\* update_shield() called when millis() - shield_timing = t
UpdateShield(t) ==
  IF UpdateDue(t)
  THEN /\ shields_remaining' = ShieldsAfter(shields_remaining, t)
       /\ elapsed' = 0                                   \* shield_timing = millis()
       /\ Show(shields_remaining')
  ELSE /\ elapsed' = t
       /\ UNCHANGED <<shields_remaining, pins, disp_arg>>

\* iterations of the first loop, Shield held, until update_shield is due
IterationsToUpdate(e) ==
  IF e + DebounceMs >= ShieldTickMs THEN 1
  ELSE (ShieldTickMs - e + DebounceMs - 1) \div DebounceMs

\* the runs of held iterations explored from elapsed = e: one iteration
\* shortly after the stamp was taken, or as many as make the update due
HeldRuns(e) ==
  {IterationsToUpdate(e)} \cup (IF e < MaxHold * DebounceMs THEN {1} ELSE {})

\* n iterations of
\* while (button_is_pressed(Shield_Pin) && (shields_remaining > shield_min))
\* that read s, update_shield not being due in the first n - 1 of them
ShieldHoldLoop(n, s) ==
  /\ pc = "sh_hold"
  /\ line' = Sampled(line, Shield_Pin, s)
  /\ IF button_is_pressed(s) /\ shields_remaining > shield_min
     THEN /\ n \in HeldRuns(elapsed)
          /\ UpdateShield(elapsed + n * DebounceMs)
          /\ UNCHANGED pc
     ELSE /\ n = 1
          /\ pc' = "sh_wait"
          /\ elapsed' = elapsed + ButtonCost(s)
          /\ UNCHANGED <<shields_remaining, pins, disp_arg>>
  /\ UNCHANGED <<health, shield_min, timeout_max, count, eeprom, saved,
                 boots, incs, hits, acts>>
  /\ UNCHANGED <<ended_by, wave, shield_start>>

\* one iteration of
\* while (!button_is_pressed(Shield_Pin) && (shields_remaining > shield_min))
\* and, when it ends, the recomputation that follows it
ShieldWaitLoop(s) ==
  /\ pc = "sh_wait"
  /\ line' = Sampled(line, Shield_Pin, s)
  /\ LET t == elapsed + ButtonCost(s)
     IN IF ~button_is_pressed(s) /\ shields_remaining > shield_min
        THEN /\ t > elapsed => GlitchExplored(elapsed, ShieldTickMs)
             /\ UpdateShield(t)
             /\ UNCHANGED <<pc, ended_by>>
        ELSE /\ shields_remaining' = ShieldsAfter(shields_remaining, t)
             /\ elapsed' = 0
             /\ pc' = "sh_release"
             /\ ended_by' = IF shields_remaining > shield_min THEN "press" ELSE "floor"
             /\ UNCHANGED <<pins, disp_arg>>
  /\ UNCHANGED <<health, shield_min, timeout_max, count, eeprom, saved,
                 boots, incs, hits, acts>>
  /\ UNCHANGED <<wave, shield_start>>

\* time passes while the second loop polls and Shield is not pressed
ShieldSpin ==
  /\ pc = "sh_wait"
  /\ shields_remaining > shield_min
  /\ elapsed < ShieldTickMs
  /\ elapsed' = ShieldTickMs
  /\ UNCHANGED <<pc, health, shields_remaining, shield_min, timeout_max, count,
                 eeprom, pins, line, disp_arg, saved,
                 boots, incs, hits, acts>>
  /\ UNCHANGED <<ended_by, wave, shield_start>>

\* while (button_is_pressed(Shield_Pin) && (shields_remaining > shield_min));
StillHeld(s, sh, floor) == button_is_pressed(s) /\ sh > floor

\* one iteration of the last while of shield_handler and, when it ends,
\* display_num(health) and the one point penalty
ShieldRelease(s) ==
  /\ pc = "sh_release"
  /\ line' = Sampled(line, Shield_Pin, s)
  /\ IF StillHeld(s, shields_remaining, shield_min)
     THEN UNCHANGED <<pc, shields_remaining, shield_min, pins, disp_arg, ended_by,
                    shield_start>>
     ELSE /\ Show(health)
          /\ shields_remaining' = ShieldsAfterPenalty(shields_remaining, shield_min)
          /\ shield_min' = 0
          /\ ended_by' = "none"
          /\ shield_start' = -1
          /\ pc' = "main"
  /\ UNCHANGED <<health, timeout_max, count, elapsed, eeprom, saved,
                 boots, incs, hits, acts>>
  /\ UNCHANGED wave

(***************************************************************************)
(* Specification                                                           *)
(***************************************************************************)
Next ==
  \/ PowerCycle
  \/ \E s \in Samples : Boot(s)
  \/ \E s \in Samples : AdvancedLoad(s)
  \/ \E f \in Samples, s \in Samples : NormalPoll(f, s)
  \/ NormalSpin
  \/ \E n \in HoldRuns, s \in Samples : NormalRelease(n, s)
  \/ \E s \in Samples, f \in Samples : EntryHealth(s, f)
  \/ \E f \in Samples : HealthHold(f)
  \/ \E s \in Samples : HealthCommit(s)
  \/ \E s \in Samples, f \in Samples : EntryShield(s, f)
  \/ \E f \in Samples : ShieldHold(f)
  \/ \E s \in Samples : ShieldCommit(s)
  \/ \E b \in Samples : WaitDark(b)
  \/ CountdownStep
  \/ CountdownZero
  \/ CountdownEnd
  \/ \E b \in Samples, s \in Samples : MainPoll(b, s)
  \/ MainSpin
  \/ \E b \in Samples : HitRelease(b)
  \/ Depleted
  \/ \E n \in 1..IterationsToUpdate(0), s \in Samples : ShieldHoldLoop(n, s)
  \/ \E s \in Samples : ShieldWaitLoop(s)
  \/ ShieldSpin
  \/ \E s \in Samples : ShieldRelease(s)

Spec == Init /\ [][Next]_vars

\* the processor keeps executing: the steps that wait for no input are taken
FairSpec ==
  /\ Spec
  /\ WF_vars(CountdownStep) /\ WF_vars(CountdownZero) /\ WF_vars(CountdownEnd)
  /\ WF_vars(Depleted)

\* power-on with Shield held, from every content of the two EEPROM cells, up
\* to the load of the stored numbers
LoadInit == InitWith(0..ByteMax) /\ wave = << >>

LoadNext ==
  \/ Boot(<<TRUE, TRUE>>)
  \/ \E s \in Samples : AdvancedLoad(s)

LoadSpec == LoadInit /\ [][LoadNext]_vars

\* button_is_pressed(Shield_Pin) at line 185, called at CallAt on each waveform
ButtonInit == InitWith({ByteMax}) /\ wave \in Waves

ButtonNext == Boot(ReadsOf(wave, CallAt))

ButtonSpec == ButtonInit /\ [][ButtonNext]_vars

\* health values an advanced game is started with in GameSpec
GameHealths == {1, DefaultHealth}

\* loop() is entered (line 289 has run) in an advanced game whose two numbers
\* were just stored: any health of GameHealths, any shields in 0..MaxStart
GameInit ==
  /\ pc = "main"
  /\ health \in GameHealths
  /\ shields_remaining \in 0..MaxStart
  /\ shield_min = 0
  /\ timeout_max = StartupTimeoutMs
  /\ count = 0
  /\ elapsed = 0
  /\ eeprom = [a \in EepromCells |->
                 IF a = ADVANCED_HEALTH_ADDRESS THEN health ELSE shields_remaining]
  /\ pins = display_num(health)
  /\ line = [p \in InputPins |-> FALSE]
  /\ disp_arg = <<health>>
  /\ saved = <<health, shields_remaining>>
  /\ ended_by = "none"
  /\ wave = << >>
  /\ shield_start = -1
  /\ boots = 1
  /\ incs = 0 /\ hits = 0 /\ acts = 0

\* loop() and shield_handler()
GameNext ==
  \/ \E b \in Samples, s \in Samples : MainPoll(b, s)
  \/ MainSpin
  \/ \E b \in Samples : HitRelease(b)
  \/ Depleted
  \/ \E n \in 1..IterationsToUpdate(0), s \in Samples : ShieldHoldLoop(n, s)
  \/ \E s \in Samples : ShieldWaitLoop(s)
  \/ ShieldSpin
  \/ \E s \in Samples : ShieldRelease(s)

GameSpec == GameInit /\ [][GameNext]_vars

\* time passes and the loops of shield_handler keep running; Shield, once
\* released, is read low
FairGameSpec ==
  /\ GameSpec
  /\ WF_vars(ShieldSpin)
  /\ WF_vars(ShieldWaitLoop(<<FALSE, FALSE>>))
  /\ WF_vars(ShieldRelease(<<FALSE, FALSE>>))

\* display_num called on any number of two digits, in any order
Render(n) ==
  /\ Show(n)
  /\ UNCHANGED <<pc, health, shields_remaining, shield_min, timeout_max, count,
                 elapsed, eeprom, line, saved, ended_by, wave, shield_start,
                 boots, incs, hits, acts>>

DisplayNext == \E n \in 0..MaxNumber : Render(n)

DisplaySpec == Init /\ [][DisplayNext]_vars

TypeOK ==
  /\ pc \in {"boot", "adv_release", "entry_health", "health_hold", "health_commit",
             "entry_shield", "shield_hold", "shield_commit", "normal",
             "normal_release", "wait_dark", "countdown", "countdown_end", "main",
             "hit_release", "depleted", "sh_hold", "sh_wait", "sh_release", "off"}
  /\ health \in Int /\ shields_remaining \in Int /\ shield_min \in Nat
  /\ timeout_max \in {StartupTimeoutMs, ExtendedTimeoutMs}
  /\ count \in 0..CountdownFrom
  /\ elapsed \in Nat
  /\ eeprom \in [EepromCells -> 0..ByteMax]
  /\ pins \in [SegPins -> {0, 1}]
  /\ line \in [InputPins -> BOOLEAN]
  /\ ended_by \in {"none", "press", "floor"}
  /\ wave \in Waves \cup {<< >>}
  /\ shield_start \in -1..MaxNumber
  /\ shield_start # -1 <=> pc \in {"sh_hold", "sh_wait", "sh_release"}
  /\ ended_by # "none" => pc = "sh_release"
  /\ boots \in 1..MaxBoots

(***************************************************************************)
(* Properties                                                              *)
(***************************************************************************)
AdvancedPcs == {"adv_release", "entry_health", "health_hold", "health_commit",
                "entry_shield", "shield_hold", "shield_commit"}
HandlerPcs == {"sh_hold", "sh_wait", "sh_release"}
GamePcs == {"main", "hit_release", "depleted"} \cup HandlerPcs

\* C1: in every reachable state health and shields_remaining are within
\* 0..99 and the argument of the last display_num call, if there was one, is
\* within 0..99, whatever the inputs and the initial EEPROM bytes were.
C1_CountersInRange ==
  /\ health \in 0..99
  /\ shields_remaining \in 0..99
  /\ \A k \in 1..Len(disp_arg) : disp_arg[k] \in 0..99

\* a game started from values reset at the load (an EEPROM byte was above
\* 99), after a hit and a shield activation
C1_Witness ==
  /\ pc = "main" /\ hits > 0 /\ acts > 0
  /\ boots = 1
  /\ eeprom[ADVANCED_HEALTH_ADDRESS] = ResetHealth
  /\ eeprom[ADVANCED_SHIELD_ADDRESS] = ResetShields
  /\ health < ResetHealth /\ shields_remaining < ResetShields

\* C2: within one run of shield_handler that saw Shield pressed, with
\* priorShields the value of shields_remaining at the press: shield_min is
\* max(priorShields - 10, 0), and shields_remaining never increases and never
\* drops below shield_min, in the two loops, in the recomputation after them
\* and in the final one point penalty.
C2_ShieldFloor ==
  [][/\ (pc = "main" /\ pc' = "sh_hold") =>
          /\ shields_remaining' = shields_remaining
          /\ shield_min' = (IF shields_remaining - 10 >= 0
                            THEN shields_remaining - 10 ELSE 0)
     /\ (pc \in HandlerPcs /\ pc' # "boot") =>
          /\ shields_remaining' <= shields_remaining
          /\ shields_remaining' >= shield_min
          /\ pc' \in HandlerPcs => shield_min' = shield_min
          /\ pc' \notin HandlerPcs => pc' = "main"
    ]_vars

\* the activation ran the shields down to a floor above 0 and Shield is
\* still to be released
C2_Witness ==
  /\ pc = "sh_release"
  /\ shield_min > 0
  /\ shields_remaining = shield_min

\* C3 as stated: once hits have brought health to 0, the program powers down
\* 60 s later with no further input, so it is never still polling the main
\* loop after more than 60 s in which no line read high.
C3_PowersDownWithoutInput ==
  (pc = "main" /\ health = 0 /\ hits > 0) => elapsed <= DepletedDelayMs

\* C3 amended: the hit that brings health to 0 displays 0 and the main loop
\* goes on; the program leaves the main loop for the final branch only on
\* the next HitBeacon assertion it observes, and on that assertion it always
\* does; the final branch displays 0, reads no input, lasts 60 s and ends
\* powered down with every segment line low; and once in it, the program
\* does reach power down (unless the tagger is switched off before).
C3_DepletedOnNextBeacon ==
  /\ [][/\ (pc = "main" /\ health = 1 /\ line'[Hit_Beacon_Pin]) =>
             /\ health' = 0
             /\ disp_arg' = <<0>> /\ pins' = display_num(0)
             /\ pc' = "hit_release"
        /\ (pc \in GamePcs /\ pc' \in {"depleted", "off"} /\ pc # pc') =>
             \/ /\ pc = "main" /\ pc' = "depleted"
                /\ health = 0 /\ health' = 0
                /\ line'[Hit_Beacon_Pin]
                /\ disp_arg' = <<0>> /\ pins' = display_num(0)
             \/ /\ pc = "depleted" /\ pc' = "off"
                /\ health' = 0
                /\ elapsed' = elapsed + 60000
                /\ line' = line
                /\ \A p \in SegPins : pins'[p] = 0
        /\ (pc = "main" /\ health = 0 /\ line'[Hit_Beacon_Pin]) => pc' = "depleted"
        /\ (pc = "depleted" /\ pc' # "boot") => pc' = "off"
       ]_vars
  /\ ((pc = "depleted") ~> (pc \in {"off", "boot"}))

\* powered down 60 s after the beacon lit on a tagger whose health hits had
\* brought to 0
C3_Witness ==
  /\ pc = "off" /\ health = 0 /\ hits > 0
  /\ elapsed = DepletedDelayMs
  /\ pins = DisplayOff

\* C4: in the main loop with health > 0 each observed HitBeacon assertion
\* decrements health by exactly 1 and displays the new value; health changes
\* in no other step of the game; and the program returns to polling only
\* after it has read HitBeacon low, so that a decrement always follows a
\* read of the beacon low and a beacon that stays lit counts once.
C4_OneHitPerAssertion ==
  [][/\ (pc = "main" /\ health > 0 /\ line'[Hit_Beacon_Pin]) =>
          /\ health' = health - 1
          /\ disp_arg' = <<health - 1>> /\ pins' = display_num(health - 1)
          /\ pc' = "hit_release"
     /\ (pc \in GamePcs /\ pc' # "boot" /\ health' # health) =>
          /\ pc = "main" /\ health > 0
          /\ ~line[Hit_Beacon_Pin] /\ line'[Hit_Beacon_Pin]
     /\ (pc = "hit_release" /\ pc' # "boot") =>
          /\ health' = health
          /\ pc' = (IF line'[Hit_Beacon_Pin] THEN "hit_release" ELSE "main")
    ]_vars

\* polling again after two hits, each counted once
C4_Witness ==
  /\ pc = "main" /\ hits = 2 /\ health > 0
  /\ disp_arg = <<health>>

\* C5 as stated: in the normal mode setup the program powers down when 60 s
\* have elapsed since the last Shield press, or since setup entry if there
\* was none, and not earlier: a power down with health still above 0 (one
\* from setup) finds between 60 s and 60 s plus the two debounce delays of
\* one poll elapsed.
C5_SixtySecondWindow ==
  (pc = "off" /\ health > 0) =>
     /\ elapsed >= 60000
     /\ elapsed <= 60000 + 2 * DebounceMs

\* C6: in the normal mode setup (health, shields_remaining) is (10, 15) or
\* (25, 30) and starts as (10, 15); a Shield press switches to the other
\* pair, and the wait for the release changes nothing however long it lasts;
\* nothing else changes the pair, and the pair in force when Fire is pressed
\* is the one the main loop starts with.
C6_GameTypePairs ==
  [][/\ pc' \in {"normal", "normal_release"} =>
          <<health', shields_remaining'>> \in {<<10, 15>>, <<25, 30>>}
     /\ (pc = "boot" /\ pc' = "normal") =>
          <<health', shields_remaining'>> = <<10, 15>>
     /\ (pc = "normal" /\ line'[Shield_Pin] /\ ~line'[Fire_Pin]) =>
          /\ pc' = "normal_release"
          /\ <<health', shields_remaining'>> =
               (IF health = 10 THEN <<25, 30>> ELSE <<10, 15>>)
          /\ disp_arg' = <<health'>>
     /\ (pc = "normal" /\ pc' # "boot" /\ ~(line'[Shield_Pin] /\ ~line'[Fire_Pin])) =>
          /\ UNCHANGED <<health, shields_remaining>>
          /\ pc' \in {"normal", "wait_dark", "off"}
          /\ pc' = "wait_dark" <=> line'[Fire_Pin]
     /\ (pc = "normal_release" /\ pc' # "boot") =>
          /\ UNCHANGED <<health, shields_remaining>>
          /\ pc' = "normal"
     /\ (pc \in {"wait_dark", "countdown", "countdown_end"} /\ pc' # "boot") =>
          UNCHANGED <<health, shields_remaining>>
    ]_vars

\* a game started with (10, 15) after Shield was pressed an even number of
\* times, at least twice (the timeout was extended by a press)
C6_Witness ==
  /\ pc = "countdown"
  /\ line[Fire_Pin]
  /\ timeout_max = ExtendedTimeoutMs
  /\ health = 10 /\ shields_remaining = 15

\* C7: at the load of advanced mode, if either EEPROM byte is above 99 both
\* cells are rewritten, to 30 and 10, and health and shields_remaining become
\* 30 and 10, also when only one byte was above 99; if both bytes are within
\* 0..99 they become health and shields_remaining unchanged and the EEPROM is
\* not written.  Health is then displayed.
C7_LoadOrReset ==
  [][(pc = "adv_release" /\ pc' = "entry_health") =>
       /\ IF eeprom[ADVANCED_HEALTH_ADDRESS] > 99 \/ eeprom[ADVANCED_SHIELD_ADDRESS] > 99
          THEN /\ eeprom' = [a \in EepromCells |->
                               IF a = ADVANCED_HEALTH_ADDRESS THEN 30 ELSE 10]
               /\ health' = 30 /\ shields_remaining' = 10
          ELSE /\ eeprom' = eeprom
               /\ health' = eeprom[ADVANCED_HEALTH_ADDRESS]
               /\ shields_remaining' = eeprom[ADVANCED_SHIELD_ADDRESS]
       /\ disp_arg' = <<health'>>
    ]_vars

\* the load has reset both cells and both values
C7_Witness ==
  /\ pc = "entry_health"
  /\ eeprom[ADVANCED_HEALTH_ADDRESS] = ResetHealth /\ health = ResetHealth
  /\ eeprom[ADVANCED_SHIELD_ADDRESS] = ResetShields /\ shields_remaining = ResetShields
  /\ disp_arg = <<ResetHealth>>

\* C8: once number entry has been completed with health H and shields S
\* confirmed, the EEPROM holds H and S in every later state, whatever hits,
\* shield activations, normal mode games, shutdowns and power cycles follow,
\* until a later number entry stores another value; and a later power-on
\* with Shield held loads H and S and displays H first and, after the Shield
\* press that confirms it, S.
C8_StoredNumbersKept ==
  saved # << >> =>
    /\ eeprom[ADVANCED_HEALTH_ADDRESS] = saved[1]
    /\ eeprom[ADVANCED_SHIELD_ADDRESS] = saved[2]
    /\ (pc \in {"entry_health", "health_commit"} /\ incs = 0) =>
         /\ health = saved[1] /\ shields_remaining = saved[2]
         /\ disp_arg = <<saved[1]>>
    /\ (pc \in {"entry_shield", "shield_commit"} /\ incs = 0) =>
         /\ health = saved[1] /\ shields_remaining = saved[2]
         /\ disp_arg = <<saved[2]>>

\* a later power-on with Shield held shows the shields confirmed at an
\* earlier power-on, after having shown the health
C8_Witness ==
  /\ saved # << >>
  /\ boots > 1
  /\ pc = "entry_shield" /\ incs = 0
  /\ disp_arg = <<saved[2]>>
  /\ saved[1] # ResetHealth

\* C9 as stated: the two EEPROM cells change only in the two steps that
\* commit a number (the Shield release that ends the health entry and the
\* one that ends the shield entry).
C9_WritesOnlyAtCommit ==
  [][eeprom' # eeprom => pc \in {"health_commit", "shield_commit"}]_vars

\* C9 amended: the two EEPROM cells change only in the step that commits
\* health (the health cell, to health), in the step that commits shields (the
\* shield cell, to shields_remaining) and in the load of advanced mode when
\* a byte read is above 99 (both cells, to 30 and 10); no other step of the
\* program, in either mode, changes them.
C9_WritesAtCommitOrReset ==
  [][eeprom' # eeprom =>
       \/ /\ pc = "health_commit" /\ pc' = "entry_shield"
          /\ eeprom' = [eeprom EXCEPT ![ADVANCED_HEALTH_ADDRESS] = health]
       \/ /\ pc = "shield_commit" /\ pc' = "wait_dark"
          /\ eeprom' = [eeprom EXCEPT ![ADVANCED_SHIELD_ADDRESS] = shields_remaining]
       \/ /\ pc = "adv_release" /\ pc' = "entry_health"
          /\ eeprom[ADVANCED_HEALTH_ADDRESS] > 99 \/ eeprom[ADVANCED_SHIELD_ADDRESS] > 99
          /\ eeprom' = [a \in EepromCells |->
                          IF a = ADVANCED_HEALTH_ADDRESS THEN 30 ELSE 10]
    ]_vars

\* the game is about to start after an entry that changed and committed both
\* a cell at the load (reset) and a cell at a commit
C9_Witness ==
  /\ pc = "wait_dark" /\ boots = 1 /\ incs > 0
  /\ ~line[Fire_Pin]
  /\ eeprom[ADVANCED_HEALTH_ADDRESS] = health
  /\ eeprom[ADVANCED_SHIELD_ADDRESS] = shields_remaining
  /\ <<health, shields_remaining>> \in
       {<<ResetHealth + 1, ResetShields>>, <<ResetHealth, ResetShields + 1>>}

C11_PregameCountdown ==
  [][/\ (pc = "wait_dark" /\ pc' # "boot") =>
          /\ pc' = (IF line'[Hit_Beacon_Pin] THEN "wait_dark" ELSE "countdown")
          /\ pc' = "countdown" => (count' = 10 /\ elapsed' = 0)
          /\ disp_arg' = disp_arg
     /\ (pc = "countdown" /\ pc' # "boot") =>
          /\ disp_arg' = <<count>> /\ pins' = display_num(count)
          /\ elapsed' = elapsed + 1000
          /\ elapsed' = (11 - count) * 1000
          /\ IF count > 0 THEN pc' = "countdown" /\ count' = count - 1
                          ELSE pc' = "countdown_end"
     /\ (pc = "countdown_end" /\ pc' # "boot") =>
          /\ pc' = "main"
          /\ elapsed = 11000 /\ disp_arg = <<0>>
          /\ disp_arg' = <<health>> /\ pins' = display_num(health)
     /\ (pc \in {"wait_dark", "countdown", "countdown_end"} /\ pc' # "boot") =>
          UNCHANGED <<health, shields_remaining>>
     /\ (pc' = "main" /\ pc \notin GamePcs) => pc = "countdown_end"
    ]_vars

\* the 0 has been on display for its second, 11 s after the beacon went dark
C11_Witness ==
  /\ pc = "countdown_end"
  /\ elapsed = 11 * CountdownDelayMs
  /\ disp_arg = <<0>>
  /\ count = 0

\* C12: the powered down state is entered with all 14 segment lines low,
\* every step in which the program turns the display off enters it, and the
\* program never leaves it: no step changes the display, health,
\* shields_remaining or the EEPROM there, whatever the inputs do.  Only
\* switching the tagger off and on, which restarts setup() and keeps the
\* EEPROM, leads out of it.
C12_PoweredDownTerminal ==
  [][/\ pc' = "off" =>
          /\ Cardinality(SegPins) = 14
          /\ \A p \in SegPins : pins'[p] = 0
     /\ (pc' # "boot" /\ pins' # pins /\ \A p \in SegPins : pins'[p] = 0) =>
          pc' = "off"
     /\ pc = "off" =>
          /\ pc' = "boot"
          /\ boots' = boots + 1
          /\ eeprom' = eeprom
    ]_vars

\* powered down by the setup timeout, the game type still on record
C12_Witness ==
  /\ pc = "off"
  /\ health \in {DefaultHealth, AltHealth}
  /\ disp_arg = <<health>>
  /\ \A p \in SegPins : pins[p] = 0

\* C13 as stated: after the Shield press that deactivates the shield, the
\* handler returns to HitBeacon polling only once Shield has been read
\* released, so that no hit is observed while Shield stays held.
C13_NoPollingWhileHeld ==
  [][(pc = "sh_release" /\ ended_by = "press" /\ pc' = "main") =>
       ~line'[Shield_Pin]]_vars

\* C14: from the power-on with Shield held to the release that commits the
\* shield number, no step powers the display down, however long the program
\* waits there; the powered down state is entered only from the normal mode
\* setup loop and from the final branch of the main loop.
C14_NoTimeoutInAdvancedSetup ==
  [][/\ pc \in AdvancedPcs => pc' \in AdvancedPcs \cup {"wait_dark", "boot"}
     /\ (pc' = "off" /\ pc # "off") => pc \in {"normal", "depleted"}
     /\ (pc \in AdvancedPcs /\ pc' # "boot") =>
          /\ timeout_max' = ExtendedTimeoutMs
          /\ \E p \in SegPins : pins'[p] = 1
    ]_vars

\* number entry is at its last step, the display on
C14_Witness ==
  /\ pc = "shield_commit"
  /\ timeout_max = ExtendedTimeoutMs
  /\ line[Shield_Pin]
  /\ pins = display_num(shields_remaining)

C16_RendersTwoDigits ==
  [][\A n \in 0..MaxNumber :
       disp_arg' = <<n>> =>
         /\ Digit1(n) \in 0..9 /\ Digit2(n) \in 0..9
         /\ \A k \in 1..7 :
              /\ pins'[pinMap_digit1[k]] = Bit(seg_array[(n \div 10) + 1], k - 1)
              /\ pins'[pinMap_digit2[k]] = Bit(seg_array[(n % 10) + 1], k - 1)
         /\ (disp_arg = <<n>> /\ pins = display_num(n)) => pins' = pins
    ]_vars

\* 47 is shown: 4 is segments B C F G, 7 is segments A B C
C16_Witness ==
  /\ disp_arg = <<47>>
  /\ \A k \in 1..7 : pins[pinMap_digit1[k]] = Bit(102, k - 1)
  /\ \A k \in 1..7 : pins[pinMap_digit2[k]] = Bit(7, k - 1)

\* C17 as stated: every activation, ended by the second press or by reaching
\* the floor, returns to polling only once Shield has been read not pressed.
C17_ReturnsOnlyWhenReleased ==
  [][(pc = "sh_release" /\ pc' = "main") => ~line'[Shield_Pin]]_vars

\* C18: when shield_handler returns, health is on the display; if the
\* activation ended with shields_remaining above the floor exactly one further
\* point has been subtracted, and if it ended at the floor nothing further;
\* an activation that began with shields_remaining > 0 has lowered it by at
\* least 1, and one that began at 0 leaves it at 0.
C18_PenaltyPoint ==
  [][(pc = "sh_release" /\ pc' = "main") =>
       /\ pins' = display_num(health)
       /\ shields_remaining > shield_min => shields_remaining' = shields_remaining - 1
       /\ shields_remaining = shield_min => shields_remaining' = shields_remaining
       /\ shields_remaining >= shield_min
       /\ shield_start > 0 => shields_remaining' <= shield_start - 1
       /\ shield_start = 0 => shields_remaining' = 0
    ]_vars

\* an activation of the normal game ended at once by the second press:
\* 15 shields, one point of penalty
C18_Witness ==
  /\ pc = "main"
  /\ acts = 1
  /\ shields_remaining = DefaultShields - 1
  /\ pins = display_num(health)

\* C19: after the first press, while Shield is read not pressed the second
\* loop of shield_handler lowers shields_remaining by one point at a time, no
\* later than one debounce delay after 999 ms have passed, never below the
\* floor and never more than 10 points below the value at the first press; it
\* is left without a press only at the floor, and then health is displayed
\* and polling resumes at once without penalty; with Shield left alone the
\* handler does return to polling.
C19_EndsWithoutSecondPress ==
  /\ [][/\ (pc = "sh_wait" /\ pc' = "sh_wait" /\ ~line'[Shield_Pin]) =>
             /\ shields_remaining' \in {shields_remaining, shields_remaining - 1}
             /\ shields_remaining' >= shield_min
             /\ shield_start - shields_remaining' <= ShieldSpan
             /\ shields_remaining' # shields_remaining =>
                  /\ elapsed >= ShieldTickMs - DebounceMs
                  /\ elapsed' = 0
                  /\ pins' = display_num(shields_remaining')
             /\ elapsed' <= ShieldTickMs
        /\ (pc = "sh_wait" /\ pc' = "sh_release" /\ ~line'[Shield_Pin]) =>
             /\ shields_remaining = shield_min
             /\ shields_remaining' = shield_min
             /\ ended_by' = "floor"
        /\ (pc = "sh_release" /\ ended_by = "floor") =>
             /\ pc' = "main"
             /\ pins' = display_num(health)
             /\ shields_remaining' = shield_min
             /\ health' = health
        ]_vars
  /\ (pc = "sh_wait") ~> (pc = "main")

\* the normal game's 15 shields have run down to the floor 5 with Shield
\* read low, and the second loop has been left
C19_Witness ==
  /\ pc = "sh_release"
  /\ ended_by = "floor"
  /\ shield_start = DefaultShields
  /\ shields_remaining = DefaultShields - ShieldSpan
  /\ shields_remaining = shield_min
  /\ ~line[Shield_Pin]

\* C20: in the main loop a step that serves a lit HitBeacon changes health by
\* at most one point down and leaves shields_remaining and the state of the
\* shield activation alone; every step of a shield activation leaves health
\* and the hit count alone; no step of the game writes the EEPROM, and
\* neither health nor shields_remaining increases once loop() runs.
C20_HitAndShieldFrames ==
  [][/\ (pc = "main" /\ pc' \in {"hit_release", "depleted"}) =>
          /\ health' \in {health, health - 1}
          /\ shields_remaining' = shields_remaining
          /\ shield_min' = shield_min
          /\ shield_start' = shield_start
          /\ acts' = acts
     /\ (pc \in {"hit_release", "depleted"} /\ pc' # "boot") =>
          /\ health' = health
          /\ shields_remaining' = shields_remaining
          /\ shield_min' = shield_min
     /\ ((pc \in HandlerPcs \/ pc' \in HandlerPcs) /\ pc' # "boot") =>
          /\ health' = health
          /\ hits' = hits
          /\ line'[Hit_Beacon_Pin] = line[Hit_Beacon_Pin]
     /\ (pc \in GamePcs /\ pc' # "boot") =>
          /\ health' <= health
          /\ shields_remaining' <= shields_remaining
          /\ eeprom' = eeprom
    ]_vars

\* a game of 10 health and 15 shields after one hit and one activation
C20_Witness ==
  /\ pc = "main"
  /\ hits = 1 /\ acts = 1
  /\ saved = <<DefaultHealth, DefaultShields>>
  /\ health = DefaultHealth - 1
  /\ shields_remaining < DefaultShields

====
